---- MODULE Spec2Model ----
(***************************************************************************)
(* Model of the network-discovery-agent command-line skeleton:             *)
(*   agent/cli.py            the typer application and its three commands  *)
(*   agent/config_loader.py  load_configs, the remote-table query          *)
(* The state is what the program can observe or change: the lines written  *)
(* to standard output, the requests sent to the remote table store, and    *)
(* the outcome of the last call of load_configs.                           *)
(***************************************************************************)
EXTENDS Integers, Sequences, FiniteSets, TLC

\* ---- bounds of the model ----
MaxOut == 3          \* lines written to standard output
MaxRequests == 2     \* requests sent to the remote store

\* config_id arguments given to the run command (cli.py:15, a str)
ConfigIds == {"c1", "c2"}

\* contents of the remote scan_configs table (each a sequence of row ids)
Tables == {<<>>, <<"c1">>, <<"c1", "c2">>}

\* outcomes of the remote query: the response arrives or the call raises
Outcomes == {"ok", "raise"}

VARIABLES
    stdout,        \* lines echoed by typer.echo, in order
    scan_configs,  \* rows of the remote table 'scan_configs'
    requests,      \* requests executed against the remote store, in order
    result,        \* outcome of the last load_configs call
    invoked        \* the entry point that ran last

vars == <<stdout, scan_configs, requests, result, invoked>>

\* the entry points typer registers with @app.command()
Commands == {"list_configs", "run", "schedule"}

None == [kind |-> "none"]

\* typer.echo(message): one line appended to standard output
echo(message) ==
    /\ Len(stdout) < MaxOut
    /\ stdout' = Append(stdout, message)

\* supabase.table(name).select(columns).execute(): one request to the store;
\* the response carries the rows of the table, or the call raises
execute(name, columns, outcome) ==
    /\ Len(requests) < MaxRequests
    /\ requests' = Append(requests, <<"select", name, columns>>)
    /\ result' = IF outcome = "ok"
                    THEN [kind |-> "data", data |-> scan_configs]
                    ELSE [kind |-> "raised"]

\* load_configs(): the query's rows are returned; nothing is caught, so a
\* failure of the query leaves the function as an exception
load_configs_call(outcome) ==
    execute("scan_configs", "*", outcome)

load_configs ==
    /\ \E outcome \in Outcomes : load_configs_call(outcome)
    /\ invoked' = "load_configs"
    /\ UNCHANGED <<stdout, scan_configs>>

\* list_configs(): prints the placeholder line
list_configs ==
    /\ echo("Placeholder: list-configs command")
    /\ invoked' = "list_configs"
    /\ UNCHANGED <<scan_configs, requests, result>>

\* a run command that first looks its configuration up in the store
run_locating(config_id) ==
    /\ echo("Placeholder: run scan for " \o config_id)
    /\ load_configs_call("ok")
    /\ invoked' = "run"
    /\ UNCHANGED scan_configs

\* run(config_id): prints the placeholder line for config_id
run(config_id) ==
    /\ echo("Placeholder: run scan for " \o config_id)
    /\ invoked' = "run"
    /\ UNCHANGED <<scan_configs, requests, result>>

\* schedule(): prints the placeholder line
schedule ==
    /\ echo("Placeholder: schedule scans")
    /\ invoked' = "schedule"
    /\ UNCHANGED <<scan_configs, requests, result>>

Init ==
    /\ stdout = <<>>
    /\ scan_configs \in Tables
    /\ requests = <<>>
    /\ result = None
    /\ invoked = "none"

Next ==
    \/ list_configs
    \/ \E config_id \in ConfigIds : run(config_id)
    \/ schedule
    \/ load_configs

Spec == Init /\ [][Next]_vars

\* the lines the three commands can print
PlaceholderLines ==
    {"Placeholder: list-configs command", "Placeholder: schedule scans"}
        \cup {"Placeholder: run scan for " \o config_id : config_id \in ConfigIds}

\* C10: a step of any of the three commands (list_configs, run, schedule)
\* only prints: it appends exactly one placeholder line to standard output
\* and sends no request to the remote store, obtains no load_configs result
\* and leaves the table untouched; the program has no other state, so no
\* scan is carried out either.
C10_CommandsOnlyPrint ==
    [][invoked' \in Commands =>
          /\ requests' = requests
          /\ result' = result
          /\ scan_configs' = scan_configs
          /\ \E line \in PlaceholderLines : stdout' = Append(stdout, line)]_vars

\* all three commands have run, after the library function load_configs was
\* called directly, and the only request to the store is that direct call
C10_Witness ==
    /\ invoked \in Commands
    /\ Len(requests) = 1
    /\ Len(stdout) = 3
    /\ {stdout[i] : i \in 1..3} =
           {"Placeholder: list-configs command",
            "Placeholder: run scan for c1",
            "Placeholder: schedule scans"}

====
